---- MODULE Spec2Model ----
(***************************************************************************)
(* konfuzio_sdk/api.py: the client binding to the Konfuzio server.         *)
(*                                                                         *)
(* One synchronous caller issues one API call at a time.  A call builds a  *)
(* request, hands it to the HTTP layer (the session built by               *)
(* _konfuzio_session, or bare requests.post for _get_auth_token), receives *)
(* the response the layer delivers and maps it to a return value or a      *)
(* raised exception.  The server is the environment: it answers every      *)
(* transmission with a status and a body of its choice.                    *)
(***************************************************************************)
EXTENDS Integers, Sequences, FiniteSets, TLC

(* Bounds of the model. *)
MaxPages == 2
MaxPageLen == 2

VARIABLES
    scheme,     \* scheme of KONFUZIO_HOST, fixed for the process
    op,         \* the API function being executed, "idle" between calls
    pc,         \* "idle" | "wait" (request with the HTTP layer) | "resp" | "done"
    req,        \* the request in flight
    sent,       \* transmissions of req so far (1 + retries)
    resp,       \* the last response received from the wire
    outcome,    \* how the call ended: a return value or a raised exception
    server,     \* get_meta_of_files: the pages served in this call, by url
    url,        \* get_meta_of_files: local url (index of the page asked for)
    result,     \* get_meta_of_files: local result
    visited,    \* get_meta_of_files: urls handed to session.get, in order
    r,          \* upload_ai_model: local r (response of the POST), or unbound
    category_ids \* upload_ai_model: argument category_ids

vars == <<scheme, op, pc, req, sent, resp, outcome, server, url, result,
          visited, r, category_ids>>

----------------------------------------------------------------------------
(* Python values as they matter to truthiness and to JSON null. *)

None == [type |-> "NoneType", val |-> 0]

PyInt(n) == [type |-> "int", val |-> n]

PyObj(t) == [type |-> t, val |-> 1]

PyBool(b) == [type |-> "bool", val |-> IF b THEN 1 ELSE 0]

IsNone(x) == x.type = "NoneType"

Truthy(x) == x.type # "NoneType" /\ x.val # 0

(* d[k] = v on a dict d. *)
Put(d, k, v) == [x \in DOMAIN d \cup {k} |-> IF x = k THEN v ELSE d[x]]

----------------------------------------------------------------------------
(* Outcomes of a call. *)

NoOutcome == [kind |-> "none", error |-> "", value |-> "none"]

Returns(v) == [kind |-> "return", error |-> "", value |-> v]

Raises(e, info) == [kind |-> "raise", error |-> e, value |-> info]

(* Response.raise_for_status(): HTTPError carrying the response for 4xx/5xx. *)
raise_for_status(rsp, u) ==
    IF rsp.status >= 400
      THEN Raises("HTTPError", [status |-> rsp.status, url |-> u])
      ELSE NoOutcome

----------------------------------------------------------------------------
(* The HTTP layer. *)

Statuses == {200, 201, 204, 400, 401, 404, 429, 500, 502, 503, 504}

NoBody == [kind |-> "none"]

NoResp == [status |-> 0, body |-> NoBody]

(* A url: the function of konfuzio_sdk.urls that built it, and the id it  *)
(* was built from where the function below uses it again (0 otherwise).   *)
Url(name, id) == [name |-> name, id |-> id]

NoReq == [method |-> "", url |-> Url("", 0), session |-> FALSE, json |-> <<>>]

Request(m, u, viaSession, payload) ==
    [method |-> m, url |-> u, session |-> viaSession, json |-> payload]

retry_strategy_with_post ==
    [total |-> 5,
     status_forcelist |-> {429, 500, 502, 503, 504},
     method_whitelist |-> {"HEAD", "GET", "PUT", "DELETE", "OPTIONS", "TRACE", "POST"}]

(* Retry(total=5, status_forcelist=..., method_whitelist=...) *)
retry_strategy ==
    [total |-> 5,
     status_forcelist |-> {429, 500, 502, 503, 504},
     method_whitelist |-> {"HEAD", "GET", "PUT", "DELETE", "OPTIONS", "TRACE"}]

(* The adapter carrying retry_strategy is mounted for 'https://' only, and *)
(* only on the session: requests.post uses no such adapter.                *)
Mounted(q) == q.session /\ scheme = "https"

(* Whether the layer answers a response of this status with a retry. *)
is_retry(q, status) ==
    /\ Mounted(q)
    /\ q.method \in retry_strategy.method_whitelist
    /\ status \in retry_strategy.status_forcelist

----------------------------------------------------------------------------
(* The server. *)

ItemIds == {1, 2}

Items == {[id |-> i] : i \in ItemIds}

SeqsUpTo(S, n) == UNION {[1..k -> S] : k \in 0..n}

Results == SeqsUpTo(Items, MaxPageLen)

(* A 'next' field: the key is absent, or null, or the url of a page. *)
Absent == [type |-> "absent", val |-> 0]

(* The body of a meta response: a mapping with 'results' ("paged"), a bare *)
(* list ("list", its items in results), a mapping without 'results', or no *)
(* JSON at all.                                                            *)
PagedBody(rs, nxt) == [kind |-> "paged", results |-> rs, next |-> nxt]

ListBody(rs) == [kind |-> "list", results |-> rs, next |-> Absent]

MappingBody == [kind |-> "mapping", results |-> <<>>, next |-> Absent]

NonJsonBody == [kind |-> "nonjson", results |-> <<>>, next |-> Absent]

(* The urls a page first served as page number n may link to: the page    *)
(* after it, or a page served before (or itself) when every page from     *)
(* there on holds no items, which keeps the accumulator finite on a cycle. *)
NextLinks(served, n, rs) ==
    {Absent, None}
      \cup (IF n < MaxPages THEN {PyInt(n + 1)} ELSE {})
      \cup {PyInt(j) : j \in {k \in 1..n : /\ rs = <<>>
                                            /\ \A i \in k..(n - 1) : served[i].results = <<>>}}

(* The bodies the server may serve for a url it has not served before. *)
FreshPages(served) ==
    UNION {{PagedBody(rs, nxt) : nxt \in NextLinks(served, Len(served) + 1, rs)} :
               rs \in Results}
      \cup {ListBody(rs) : rs \in Results}
      \cup {MappingBody}

AllPaged(c) == \A i \in 1..Len(c) : c[i].kind = "paged"

RECURSIVE Concat(_, _)
(* results of pages 1..n of the pages c, in page order *)
Concat(c, n) == IF n = 0 THEN <<>> ELSE Concat(c, n - 1) \o c[n].results

(* Bodies of the other endpoints. *)
ContentTypes ==
    {"application/pdf", "image/jpeg", "image/png", "image/jpg", "text/html",
     "application/pdf; charset=utf-8", "missing"}

Contents == {<<>>, <<37, 80>>}

Tokens == {"tokenA", "tokenB"}

AiModelIds == {1, 2}

(* What the server may answer to the request in flight. *)
ServerBodies ==
    CASE op = "_get_auth_token" ->
           {[kind |-> "json", token |-> t] : t \in Tokens} \cup {[kind |-> "nonjson", token |-> ""]}
      [] op = "download_file_konfuzio_api" ->
           {[kind |-> "file", content_type |-> ct, content |-> b] :
                ct \in ContentTypes, b \in Contents}
      [] op = "upload_ai_model" /\ req.method = "POST" ->
           {[kind |-> "json", id |-> i, ai_model |-> "model.pkl"] : i \in AiModelIds}
             \cup {[kind |-> "nonjson", id |-> 0, ai_model |-> ""]}
      [] op = "post_document_annotation" -> {[kind |-> "json"]}
      [] OTHER -> {[kind |-> "json"], [kind |-> "nonjson"]}

MetaPages == IF url <= Len(server) THEN {server[url]} ELSE FreshPages(server)

ServerAnswers ==
    IF op = "get_meta_of_files"
      THEN {[status |-> IF p.kind = "mapping" THEN 404 ELSE 200, body |-> p] : p \in MetaPages}
             \cup {[status |-> s, body |-> NonJsonBody] : s \in {x \in Statuses : x >= 429}}
      ELSE {[status |-> s, body |-> b] : s \in Statuses, b \in ServerBodies}

----------------------------------------------------------------------------
Init ==
    /\ scheme \in {"https", "http"}
    /\ op = "idle"
    /\ pc = "idle"
    /\ req = NoReq
    /\ sent = 0
    /\ resp = NoResp
    /\ outcome = NoOutcome
    /\ server = <<>>
    /\ url = 0
    /\ result = <<>>
    /\ visited = <<>>
    /\ r = NoResp
    /\ category_ids = None

(* A function starts and hands its first request to the HTTP layer. *)
Start(f, q) ==
    /\ pc = "idle"
    /\ op' = f
    /\ pc' = "wait"
    /\ req' = q
    /\ sent' = 0
    /\ resp' = NoResp
    /\ outcome' = NoOutcome

(* A function ends. *)
Finish(o) ==
    /\ pc' = "done"
    /\ outcome' = o

MetaLocals == <<server, url, result, visited>>

UploadLocals == <<r, category_ids>>

(* One transmission: the server answers, and the layer retries, gives up   *)
(* (retries exhausted) or delivers the response to the function.           *)
Attempt ==
    /\ pc = "wait"
    /\ resp' \in ServerAnswers
    /\ sent' = sent + 1
    /\ IF is_retry(req, resp'.status)
         THEN IF sent + 1 <= retry_strategy.total
                THEN pc' = "wait" /\ outcome' = outcome
                ELSE Finish(Raises("RetryError", [status |-> resp'.status, url |-> req.url]))
         ELSE pc' = "resp" /\ outcome' = outcome
    /\ server' = IF op = "get_meta_of_files" /\ url > Len(server)
                                             /\ resp'.body.kind # "nonjson"
                   THEN Append(server, resp'.body)
                   ELSE server
    /\ UNCHANGED <<scheme, op, req, url, result, visited, UploadLocals>>

(* The caller takes the outcome; the next call may start. *)
Return ==
    /\ pc = "done"
    /\ op' = "idle"
    /\ pc' = "idle"
    /\ req' = NoReq
    /\ sent' = 0
    /\ resp' = NoResp
    /\ outcome' = NoOutcome
    /\ server' = <<>>
    /\ url' = 0
    /\ result' = <<>>
    /\ visited' = <<>>
    /\ r' = NoResp
    /\ category_ids' = None
    /\ UNCHANGED scheme

----------------------------------------------------------------------------
(* _get_auth_token *)

_get_auth_token_accepts_2xx(rsp) ==
    IF rsp.status < 300
      THEN IF rsp.body.kind = "json" THEN Returns(rsp.body.token)
                                     ELSE Raises("JSONDecodeError", rsp.status)
      ELSE Raises("ValueError", rsp.status)

_get_auth_token(rsp) ==
    IF rsp.status = 200
      THEN IF rsp.body.kind = "json" THEN Returns(rsp.body.token)
                                     ELSE Raises("JSONDecodeError", rsp.status)
      ELSE Raises("ValueError", rsp.status)

AuthCall ==
    /\ Start("_get_auth_token", Request("POST", Url("get_auth_token_url", 0), FALSE, <<>>))
    /\ UNCHANGED <<scheme, MetaLocals, UploadLocals>>

AuthDone ==
    /\ op = "_get_auth_token" /\ pc = "resp"
    /\ Finish(_get_auth_token(resp))
    /\ UNCHANGED <<scheme, op, req, sent, resp, MetaLocals, UploadLocals>>

----------------------------------------------------------------------------
(* get_meta_of_files *)

RECURSIVE Insert(_, _)
(* x put into the sorted sequence s behind every item whose id is <= x.id *)
Insert(s, x) ==
    IF s = <<>> THEN <<x>>
    ELSE IF s[Len(s)].id <= x.id THEN Append(s, x)
    ELSE Append(Insert(SubSeq(s, 1, Len(s) - 1), x), s[Len(s)])

RECURSIVE SortFrom(_, _)
SortFrom(s, n) == IF n = 0 THEN <<>> ELSE Insert(SortFrom(s, n - 1), s[n])

(* the sequence as it stands *)
Unsorted(s) == s

(* sorted(result, key=itemgetter('id')) *)
SortById(s) == SortFrom(s, Len(s))

(* result += data *)
AppendBody(acc, data) == acc \o data.results

(* result = data: the body replaces what was accumulated *)
ReplaceByBody(acc, data) == data.results

GetMetaCall ==
    /\ Start("get_meta_of_files", Request("GET", Url("get_documents_meta_url", 0), TRUE, <<>>))
    /\ server' = <<>>
    /\ url' = 1
    /\ result' = <<>>
    /\ visited' = <<1>>
    /\ UNCHANGED <<scheme, UploadLocals>>

(* One pass of the body of the while loop, from r.json() on; leaving the   *)
(* loop runs the sort and the return.                                      *)
GetMetaPage ==
    /\ op = "get_meta_of_files" /\ pc = "resp"
    /\ LET data == resp.body IN
       IF data.kind = "nonjson"
         THEN /\ Finish(Raises("JSONDecodeError", resp.status))
              /\ UNCHANGED <<url, result, visited, req, sent>>
       ELSE IF data.kind = "paged"
         THEN LET acc == result \o data.results IN
              /\ result' = acc
              /\ IF data.next.type # "absent" /\ Truthy(data.next)
                   THEN /\ url' = data.next.val
                        /\ visited' = IF Len(visited) <= MaxPages
                                        THEN Append(visited, data.next.val)
                                        ELSE visited
                        /\ pc' = "wait"
                        /\ sent' = 0
                        /\ req' = Request("GET", Url("next", data.next.val), TRUE, <<>>)
                        /\ outcome' = outcome
                   ELSE /\ Finish(Returns(SortById(acc)))
                        /\ UNCHANGED <<url, visited, req, sent>>
       ELSE IF data.kind = "list"
         THEN /\ result' = ReplaceByBody(result, data)
              /\ Finish(Returns(SortById(ReplaceByBody(result, data))))
              /\ UNCHANGED <<url, visited, req, sent>>
       ELSE \* a dict without 'results': sorted() walks its keys, which are
            \* strings, and itemgetter('id') fails on the first of them
            /\ result' = ReplaceByBody(result, data)
            /\ Finish(Raises("TypeError", resp.status))
            /\ UNCHANGED <<url, visited, req, sent>>
    /\ UNCHANGED <<scheme, op, resp, server, UploadLocals>>

----------------------------------------------------------------------------
(* download_file_konfuzio_api *)

allowed_content_types_with_html ==
    {"application/pdf", "image/jpeg", "image/png", "image/jpg", "text/html"}

allowed_content_types == {"application/pdf", "image/jpeg", "image/png", "image/jpg"}

download_file_konfuzio_api(rsp) ==
    IF rsp.body.content_type \notin allowed_content_types
      THEN Raises("FileNotFoundError", rsp.body.content_type)
      ELSE Returns(rsp.body.content)

DownloadCall ==
    /\ pc = "idle"
    /\ \E ocr \in BOOLEAN :
         Start("download_file_konfuzio_api",
               Request("GET",
                       IF ocr THEN Url("get_document_ocr_file_url", 0)
                              ELSE Url("get_document_original_file_url", 0),
                       TRUE, <<>>))
    /\ UNCHANGED <<scheme, MetaLocals, UploadLocals>>

DownloadDone ==
    /\ op = "download_file_konfuzio_api" /\ pc = "resp"
    /\ Finish(download_file_konfuzio_api(resp))
    /\ UNCHANGED <<scheme, op, req, sent, resp, MetaLocals, UploadLocals>>

----------------------------------------------------------------------------
(* upload_ai_model *)

EmptyList == [type |-> "list", val |-> 0]

CategoryLists == {None, EmptyList, PyObj("list")}

links_categories_unless_none(cats) == ~IsNone(cats)

(* if category_ids: *)
links_categories(cats) == Truthy(cats)

(* Entry: is_file decides whether the POST is made at all. *)
UploadAiModelCall ==
    /\ pc = "idle"
    /\ \E cats \in CategoryLists, isfile \in {"true", "false", "raise"} :
         /\ category_ids' = cats
         /\ op' = "upload_ai_model"
         /\ sent' = 0
         /\ resp' = NoResp
         /\ IF isfile = "true"
              THEN /\ pc' = "wait"
                   /\ req' = Request("POST", Url("get_create_ai_model_url", 0), TRUE, <<>>)
                   /\ outcome' = NoOutcome
              ELSE /\ req' = NoReq
                   /\ Finish(IF isfile = "raise"
                               THEN Raises("FileNotFoundError", "is_file")
                               ELSE Raises("UnboundLocalError", "r"))
    /\ UNCHANGED <<scheme, MetaLocals, r>>

(* From the response of the POST to the PATCH or the return. *)
UploadAiModelPosted ==
    /\ op = "upload_ai_model" /\ pc = "resp" /\ req.method = "POST"
    /\ r' = resp
    /\ IF raise_for_status(resp, req.url).kind = "raise"
         THEN Finish(raise_for_status(resp, req.url)) /\ UNCHANGED <<req, sent>>
       ELSE IF resp.body.kind # "json"
         THEN Finish(Raises("JSONDecodeError", resp.status)) /\ UNCHANGED <<req, sent>>
       ELSE IF links_categories(category_ids)
         THEN /\ req' = Request("PATCH", Url("get_update_ai_model_url", resp.body.id),
                                TRUE, category_ids)
              /\ sent' = 0
              /\ pc' = "wait"
              /\ outcome' = outcome
         ELSE Finish(Returns(resp.body.ai_model)) /\ UNCHANGED <<req, sent>>
    /\ UNCHANGED <<scheme, op, resp, MetaLocals, category_ids>>

(* From the response of the PATCH to the return. *)
UploadAiModelPatched ==
    /\ op = "upload_ai_model" /\ pc = "resp" /\ req.method = "PATCH"
    /\ IF raise_for_status(resp, req.url).kind = "raise"
         THEN Finish(raise_for_status(resp, req.url))
         ELSE Finish(Returns(r.body.ai_model))
    /\ UNCHANGED <<scheme, op, req, sent, resp, MetaLocals, UploadLocals>>

----------------------------------------------------------------------------
(* post_document_annotation *)

(* kwargs.get(k, None) for the keys the function reads. *)
Kwargs ==
    [bbox : {None, PyObj("dict")},
     bboxes : {None, PyObj("list")},
     selection_bbox : {None, PyObj("dict")},
     page_number : {None, PyInt(0)},
     offset_string : {None, PyObj("str")},
     start_offset : {None, PyInt(0), PyInt(1)},
     end_offset : {None, PyInt(0), PyInt(2)}]

(* The dict data as it stands when it is posted. *)
annotation_data(label_id, label_set_id, confidence, revised, is_correct, annotation_set, kwargs) ==
    LET d0 == [start_offset |-> kwargs.start_offset,
               end_offset |-> kwargs.end_offset,
               label |-> label_id,
               revised |-> revised,
               section_label_id |-> label_set_id,
               accuracy |-> confidence,
               is_correct |-> is_correct]
        d1 == IF Truthy(kwargs.end_offset)
                THEN Put(d0, "end_offset", kwargs.end_offset) ELSE d0
        d2 == IF ~IsNone(kwargs.start_offset)
                THEN Put(d1, "start_offset", kwargs.start_offset) ELSE d1
        d3 == IF Truthy(annotation_set)
                THEN Put(d2, "section", annotation_set) ELSE Put(d2, "section", None)
        d4 == IF ~IsNone(kwargs.page_number)
                THEN Put(d3, "page_number", kwargs.page_number) ELSE d3
        d5 == IF ~IsNone(kwargs.offset_string)
                THEN Put(d4, "offset_string", kwargs.offset_string) ELSE d4
        d6 == IF ~IsNone(kwargs.bbox) THEN Put(d5, "bbox", kwargs.bbox) ELSE d5
        d7 == IF ~IsNone(kwargs.bboxes)
                THEN Put(d6, "custom_bboxes", kwargs.bboxes) ELSE d6
    IN  IF ~IsNone(kwargs.selection_bbox)
          THEN Put(d7, "selection_bbox", kwargs.selection_bbox) ELSE d7

post_document_annotation(rsp) ==
    IF rsp.status = 201 THEN Returns(rsp) ELSE Raises("AssertionError", rsp.status)

PostAnnotationCall ==
    /\ pc = "idle"
    /\ \E kwargs \in Kwargs, confidence \in {None, PyObj("float")},
          annotation_set \in {None, PyInt(0), PyInt(7)} :
         Start("post_document_annotation",
               Request("POST", Url("get_document_annotations_url", 0), TRUE,
                       annotation_data(PyInt(1), PyInt(1), confidence, PyBool(FALSE),
                                       PyBool(FALSE), annotation_set, kwargs)))
    /\ UNCHANGED <<scheme, MetaLocals, UploadLocals>>

PostAnnotationDone ==
    /\ op = "post_document_annotation" /\ pc = "resp"
    /\ Finish(post_document_annotation(resp))
    /\ UNCHANGED <<scheme, op, req, sent, resp, MetaLocals, UploadLocals>>

----------------------------------------------------------------------------
(* The endpoint operations that send one request and map its response. *)

(* r.json() and json.loads(r.text) *)
Json(rsp, v) ==
    IF rsp.body.kind = "json" THEN Returns(v) ELSE Raises("JSONDecodeError", rsp.status)

get_project_list(rsp) == Json(rsp, "projects")

get_project_details(rsp, u) ==
    IF raise_for_status(rsp, u).kind = "raise" THEN raise_for_status(rsp, u)
                                               ELSE Json(rsp, "project")

create_new_project(rsp) ==
    IF rsp.status = 201 THEN Json(rsp, "id") ELSE Raises("Exception", rsp.status)

get_document_details(rsp) == Json(rsp, "data")

post_document_bulk_annotation(rsp, u) ==
    IF raise_for_status(rsp, u).kind = "raise" THEN raise_for_status(rsp, u)
                                               ELSE Returns(rsp)

delete_document_annotation(rsp) ==
    IF rsp.status = 200 THEN Json(rsp, "id")
    ELSE IF rsp.status = 204 THEN Returns(rsp)
    ELSE Returns(None)

create_label(rsp) ==
    IF rsp.status = 201 THEN Json(rsp, "id_") ELSE Raises("AssertionError", rsp.status)

upload_file_konfuzio_api(rsp) == Returns(rsp)

delete_file_konfuzio_api(rsp) ==
    IF rsp.status = 204 THEN Returns(TRUE) ELSE Raises("AssertionError", rsp.status)

update_file_konfuzio_api(rsp) == Json(rsp, "document")

get_results_from_segmentation(rsp) == Json(rsp, "segmentation_result")

(* The verb and the url of each of them. *)
Endpoints ==
    {<<"get_project_list", "GET", "get_projects_list_url">>,
     <<"get_project_details", "GET", "get_project_url">>,
     <<"create_new_project", "POST", "get_projects_list_url">>,
     <<"get_document_details", "GET", "get_document_api_details_url">>,
     <<"post_document_bulk_annotation", "POST", "get_document_annotations_url">>,
     <<"delete_document_annotation", "DELETE", "get_annotation_url">>,
     <<"create_label", "POST", "get_labels_url">>,
     <<"delete_file_konfuzio_api", "DELETE", "get_document_url">>,
     <<"update_file_konfuzio_api", "PATCH", "get_document_url">>,
     <<"get_results_from_segmentation", "GET", "get_document_segmentation_details_url">>}

EndpointNames == {e[1] : e \in Endpoints} \cup {"upload_file_konfuzio_api"}

EndpointOutcome(f, rsp, u) ==
    CASE f = "get_project_list" -> get_project_list(rsp)
      [] f = "get_project_details" -> get_project_details(rsp, u)
      [] f = "create_new_project" -> create_new_project(rsp)
      [] f = "get_document_details" -> get_document_details(rsp)
      [] f = "post_document_bulk_annotation" -> post_document_bulk_annotation(rsp, u)
      [] f = "delete_document_annotation" -> delete_document_annotation(rsp)
      [] f = "create_label" -> create_label(rsp)
      [] f = "upload_file_konfuzio_api" -> upload_file_konfuzio_api(rsp)
      [] f = "delete_file_konfuzio_api" -> delete_file_konfuzio_api(rsp)
      [] f = "update_file_konfuzio_api" -> update_file_konfuzio_api(rsp)
      [] f = "get_results_from_segmentation" -> get_results_from_segmentation(rsp)

EndpointCall ==
    /\ pc = "idle"
    /\ \E e \in Endpoints : Start(e[1], Request(e[2], Url(e[3], 0), TRUE, <<>>))
    /\ UNCHANGED <<scheme, MetaLocals, UploadLocals>>

(* Entry of upload_file_konfuzio_api: is_file or open may raise. *)
UploadFileCall ==
    /\ pc = "idle"
    /\ \E readable \in BOOLEAN :
         /\ op' = "upload_file_konfuzio_api"
         /\ sent' = 0
         /\ resp' = NoResp
         /\ IF readable
              THEN /\ pc' = "wait"
                   /\ req' = Request("POST", Url("get_upload_document_url", 0), TRUE, <<>>)
                   /\ outcome' = NoOutcome
              ELSE /\ req' = NoReq
                   /\ Finish(Raises("FileNotFoundError", "is_file"))
    /\ UNCHANGED <<scheme, MetaLocals, UploadLocals>>

EndpointDone ==
    /\ op \in EndpointNames /\ pc = "resp"
    /\ Finish(EndpointOutcome(op, resp, req.url))
    /\ UNCHANGED <<scheme, op, req, sent, resp, MetaLocals, UploadLocals>>

----------------------------------------------------------------------------
(* What the running call does next, and what the caller does. *)
Step ==
    \/ Attempt
    \/ AuthDone
    \/ GetMetaPage
    \/ DownloadDone
    \/ UploadAiModelPosted
    \/ UploadAiModelPatched
    \/ PostAnnotationDone
    \/ EndpointDone

Next ==
    \/ AuthCall
    \/ GetMetaCall
    \/ DownloadCall
    \/ UploadAiModelCall
    \/ PostAnnotationCall
    \/ EndpointCall
    \/ UploadFileCall
    \/ Step
    \/ Return

Spec == Init /\ [][Next]_vars

(* A call that has started keeps running: the code is synchronous and the  *)
(* HTTP layer answers every request (a response, or the timeout).          *)
FairSpec == Spec /\ WF_vars(Step)

----------------------------------------------------------------------------
(* Properties. *)

IsSortedById(s) == \A i \in 1..(Len(s) - 1) : s[i].id <= s[i + 1].id

Count(s, x) == Cardinality({i \in DOMAIN s : s[i] = x})

SameItems(s, t) == Len(s) = Len(t) /\ \A x \in Items : Count(s, x) = Count(t, x)

InTurn(n) == [i \in 1..n |-> i]

MetaEnded == op = "get_meta_of_files" /\ pc = "done"

(* C1 as stated: when every page served was a mapping with results and the *)
(* call returned, one GET was issued per page, each next link in turn, and *)
(* the value returned is the concatenation of the pages' results in page   *)
(* order.                                                                  *)
C1_ReturnsPageOrder ==
    (MetaEnded /\ AllPaged(server) /\ outcome.kind = "return") =>
        /\ visited = InTurn(Len(server))
        /\ outcome.value = Concat(server, Len(server))

(* C1 amended: on such a chain one GET is issued per page, in turn, the    *)
(* loop leaves result equal to the concatenation of the pages' results in  *)
(* page order, and the value returned holds exactly those items sorted by  *)
(* id ascending; the call raises only when a GET ended in a 429/5xx.       *)
C1_ReturnsSortedConcat ==
    (MetaEnded /\ AllPaged(server)) =>
        IF outcome.kind = "return"
          THEN /\ visited = InTurn(Len(server))
               /\ result = Concat(server, Len(server))
               /\ IsSortedById(outcome.value)
               /\ SameItems(outcome.value, Concat(server, Len(server)))
          ELSE /\ outcome.error \in {"RetryError", "JSONDecodeError"}
               /\ resp.status \in {429, 500, 502, 503, 504}

(* Two pages were served and returned, and sorting changed their order. *)
C1_Witness ==
    /\ MetaEnded /\ AllPaged(server) /\ outcome.kind = "return"
    /\ Len(server) = 2
    /\ server[1].results # <<>> /\ server[2].results # <<>>
    /\ outcome.value # Concat(server, 2)

(* C2 as stated: once the loop asks again for a url it was already served  *)
(* (the next chain is cyclic), the call ends.                              *)
C2_CyclicChainEnds ==
    (op = "get_meta_of_files" /\ pc = "wait" /\ url <= Len(server)) ~> (pc = "done")

(* C3: a request is transmitted again only when its method is one of GET,  *)
(* HEAD, PUT, DELETE, OPTIONS, TRACE and the response just received has    *)
(* status 429, 500, 502, 503 or 504; a POST or PATCH is transmitted once;  *)
(* no request is retried more than 5 times, and the failure then raised    *)
(* follows the fifth retry.                                                *)
C3_RetryPolicy ==
    [][/\ (sent' = sent + 1 /\ sent >= 1) =>
              /\ req.method \in {"GET", "HEAD", "PUT", "DELETE", "OPTIONS", "TRACE"}
              /\ resp.status \in {429, 500, 502, 503, 504}
       /\ req'.method \in {"POST", "PATCH"} => sent' <= 1
       /\ sent' - 1 <= 5
       /\ (pc' = "done" /\ outcome'.error = "RetryError") => sent' - 1 = 5]_vars

(* A GET was retried five times and the failure was raised. *)
C3_Witness ==
    /\ pc = "done" /\ outcome.error = "RetryError"
    /\ req.method = "GET" /\ sent = 6 /\ resp.status = 503

(* C4: _get_auth_token transmits its request once; on status 200 it        *)
(* returns the token of the body, on any other status it raises the        *)
(* credentials error (ValueError) and returns nothing.                     *)
C4_AuthOnce ==
    (op = "_get_auth_token") =>
        /\ sent <= 1
        /\ pc = "done" =>
             /\ sent = 1
             /\ (resp.status = 200 /\ resp.body.kind = "json") =>
                    outcome = Returns(resp.body.token)
             /\ resp.status # 200 =>
                    outcome.kind = "raise" /\ outcome.error = "ValueError"

(* The login endpoint answered 401 and the call raised. *)
C4_Witness ==
    /\ op = "_get_auth_token" /\ pc = "done"
    /\ resp.status = 401 /\ outcome.kind = "raise" /\ sent = 1

(* C5: download_file_konfuzio_api returns the body of the response it was  *)
(* handed, unchanged, when the content-type is application/pdf, image/jpeg, *)
(* image/png or image/jpg, and raises the content-type error               *)
(* (FileNotFoundError) for every other content-type, a missing one too.    *)
C5_DownloadAllowList ==
    (op = "download_file_konfuzio_api" /\ pc = "done" /\ outcome.error # "RetryError") =>
        IF resp.body.content_type \in
               {"application/pdf", "image/jpeg", "image/png", "image/jpg"}
          THEN outcome = Returns(resp.body.content)
          ELSE outcome.kind = "raise" /\ outcome.error = "FileNotFoundError"

(* A text/html response was refused. *)
C5_Witness ==
    /\ op = "download_file_konfuzio_api" /\ pc = "done"
    /\ resp.body.content_type = "text/html" /\ resp.body.content = <<37, 80>>
    /\ outcome.kind = "raise" /\ outcome.error = "FileNotFoundError"

(* C6: in upload_ai_model a PATCH is in flight only after the POST was     *)
(* answered with a success status and only with a non-empty category_ids;  *)
(* a PATCH answered with a failure status ends the call with a raise.      *)
C6_PatchAfterPost ==
    (op = "upload_ai_model" /\ req.method = "PATCH") =>
        /\ r.status \in {200, 201, 204}
        /\ category_ids.type = "list" /\ category_ids.val # 0
        /\ (pc = "done" /\ resp.status >= 400) => outcome.kind = "raise"

(* The POST succeeded, the PATCH was answered 500 and the call raised. *)
C6_Witness ==
    /\ op = "upload_ai_model" /\ pc = "done" /\ req.method = "PATCH"
    /\ r.status = 201 /\ resp.status = 500 /\ outcome.kind = "raise"

(* C7 as stated: when the POST succeeded and the PATCH failed, the call    *)
(* raises, what it raises lets the caller find the artifact id of the      *)
(* POST's response, and the error is another one than the error a failed   *)
(* POST raises.                                                            *)
C7_Step2FailureDistinct ==
    (/\ op = "upload_ai_model" /\ pc = "done"
     /\ req.method = "PATCH" /\ resp.status >= 400) =>
        /\ outcome.kind = "raise"
        /\ outcome.value.url.id = r.body.id
        /\ outcome.error #
             raise_for_status(resp, Url("get_create_ai_model_url", 0)).error

(* The success code each endpoint expects. *)
ExpectedStatus(f) ==
    CASE f \in {"create_new_project", "post_document_bulk_annotation",
                "post_document_annotation", "create_label",
                "upload_file_konfuzio_api"} -> {201}
      [] f = "delete_document_annotation" -> {200, 204}
      [] f = "delete_file_konfuzio_api" -> {204}
      [] OTHER -> {200}

(* C8 as stated: an endpoint operation handed a response whose status is   *)
(* not its expected success code raises.                                   *)
C8_UnexpectedStatusRaises ==
    (/\ op \in EndpointNames \cup {"post_document_annotation"}
     /\ pc = "done" /\ sent >= 1
     /\ resp.status \notin ExpectedStatus(op)) =>
        outcome.kind = "raise"

(* C9 as stated: in the payload post_document_annotation posts, no key but *)
(* section carries null.                                                   *)
C9_NoNullButSection ==
    (op = "post_document_annotation" /\ pc = "wait") =>
        \A k \in DOMAIN req.json \ {"section"} : ~IsNone(req.json[k])

(* The body arrived that is no mapping with results. *)
BareBodyEnded == MetaEnded /\ resp.body.kind \in {"list", "mapping"}

(* C10 as stated: a body that is no mapping with results ends the loop     *)
(* with no further GET, one GET having been issued per page up to it, and  *)
(* is returned verbatim.                                                   *)
C10_BodyReturnedVerbatim ==
    BareBodyEnded =>
        /\ visited = InTurn(url) /\ url = Len(server)
        /\ outcome = Returns(IF resp.body.kind = "list" THEN resp.body.results
                                                       ELSE resp.body)

(* C10 amended: such a body ends the loop with no further GET and replaces *)
(* what was accumulated; a bare list is returned with the same items       *)
(* sorted by id ascending, a mapping without results makes the call raise  *)
(* (TypeError).                                                            *)
C10_ListReturnedSorted ==
    BareBodyEnded =>
        /\ visited = InTurn(url) /\ url = Len(server)
        /\ server[url] = resp.body
        /\ IF resp.body.kind = "list"
             THEN /\ result = resp.body.results
                  /\ outcome.kind = "return"
                  /\ IsSortedById(outcome.value)
                  /\ SameItems(outcome.value, resp.body.results)
             ELSE outcome.kind = "raise" /\ outcome.error = "TypeError"

(* A bare list arrived after a page with items, and sorting reordered it. *)
C10_Witness ==
    /\ BareBodyEnded /\ resp.body.kind = "list" /\ url = 2
    /\ server[1].results # <<>>
    /\ outcome.kind = "return" /\ outcome.value # resp.body.results

====
